---- MODULE Spec2Model ----
(***************************************************************************)
(* A model of terraformjs: the block builders of src/base.js (factories,  *)
(* chain builders, blocks) and the document generation of src/utils.js    *)
(* (createBlockObject, generateJSON).                                     *)
(*                                                                         *)
(* Four specifications share the module:                                  *)
(*   SpecBuilder - a client program that uses the builder API;            *)
(*   SpecGen     - one call of generateJSON(path, blocks);                *)
(*   SpecExpr    - a client program that reads reference expressions off  *)
(*                 a Block or an Interpolation and renders them;          *)
(*   SpecCli     - one run of the terraformjs command (src/cli.js).       *)
(* SpecGenWithBuilder is SpecGen for inputs that hold a builder.          *)
(***************************************************************************)
EXTENDS Integers, Sequences, FiniteSets, TLC

VARIABLES
    \* ---- heap of the builder API (SpecBuilder) ----
    arrays,     \* the label arrays: arrays[a] is the content of array object a
    builders,   \* the BlockContent targets: [type, labels], labels an array id
    refs,       \* the values the client holds, each with the names accessed to get it
    blocks,     \* the Block objects: [type, labels, body], labels an array id
    created,    \* history: created[j] is block j as it was when it was constructed
    \* ---- one generateJSON call (SpecGen) ----
    input,      \* the blocks argument
    stack,      \* the processBlocks activations: [items, idx]
    pc,         \* where the call is
    objects,    \* the objects array
    inflight,   \* encounter numbers of the producers invoked and not yet settled
    events,     \* history: producer invocations and settlements, in order
    seen,       \* history: the Declarations encountered, in order
    writes,     \* the texts handed to fs.writeFile, in order
    error,      \* the rejection of the call
    \* ---- reference expressions (SpecExpr) ----
    decl,       \* the Block the client starts from (if it starts from one)
    held,       \* the value the client holds now
    prev,       \* history: the value the last property access was made on
    trail,      \* history: the property names accessed, in order
    out,        \* the text of the last conversion of held, and its kind
    \* ---- one run of the terraformjs command (SpecCli) ----
    cmd,        \* args[0]
    disk,       \* the entries of the working directory, in listing order
    disk0,      \* history: the working directory when the run started
    rpc,        \* where the run is
    phase,      \* "pre": before Terraform; "post": in its close handler
    files,      \* the array of names the running loop goes over
    idx,        \* the position of the loop in files
    log,        \* history: what the run did, in order
    closeCode,  \* the code Terraform closed with: <<>> or <<code>>
    exitCode    \* the code of process.exit: <<>> or <<code>>

bvars == <<arrays, builders, refs, blocks, created>>
gvars == <<input, stack, pc, objects, inflight, events, seen, writes, error>>
evars == <<decl, held, prev, trail, out>>
cvars == <<cmd, disk, disk0, rpc, phase, files, idx, log, closeCode, exitCode>>
vars == <<arrays, builders, refs, blocks, created,
          input, stack, pc, objects, inflight, events, seen, writes, error,
          decl, held, prev, trail, out,
          cmd, disk, disk0, rpc, phase, files, idx, log, closeCode, exitCode>>

----------------------------------------------------------------------------
(* Bounds *)

MaxRefs == 2        \* values the client program holds
MaxBlocks == 1      \* Block objects the client program creates
MaxLeaves == 2      \* leaves of the blocks argument of generateJSON
MaxDepth == 2       \* arrays around a leaf, the blocks array not counted
MaxAccesses == 2    \* property accesses chained from a Block or Interpolation
MaxEntries == 3     \* entries of the working directory when a run starts

----------------------------------------------------------------------------
(* Values *)

\* The top-level factories exported by the package.
Kinds == {"terraform", "provider", "resource", "variable",
          "module", "data", "locals", "output"}

\* The kinds the client program of SpecBuilder uses.
ClientKinds == {"resource", "provider"}

\* Property names the client accesses: two ordinary names, the empty string,
\* and "length", which every function object (so every builder) already has.
Names == {"web", "db", "", "length"}

\* `property in target` for a TerraformBlock or BlockContent target: the
\* target is a bound function, so the members of Function.prototype and the
\* own properties of a function are present.
FunctionMembers == {"length", "name", "bind", "call", "apply", "toString",
                    "constructor", "__call__"}

HasProperty(property) == property \in FunctionMembers

\* A body is an object literal (a set of <<key, value>> pairs) or a function.
\* fn: "none" for an object, "sync" for a plain function, "promise" for a
\* function returning a promise / an async function.  fails: the function
\* throws or its promise rejects.
Body(fn, val, fails) == [fn |-> fn, val |-> val, fails |-> fails]

EmptyObject == {}

\* `body = {}` default parameter
DefaultBody == Body("none", EmptyObject, FALSE)

ClientBodies == {DefaultBody, Body("none", {<<"instance_type", "t2.micro">>}, FALSE)}

\* a call without an argument
NoArg == Body("undefined", EmptyObject, FALSE)

----------------------------------------------------------------------------
(* src/base.js: BlockContent, TerraformBlock, Block *)

\* `label ? [label] : []`
FirstLabels(label) == IF label # "" THEN <<label>> ELSE <<>>

\* target[LABELS].push(property.toString())
PushLabel(labels, property) == Append(labels, property)

\* The array object a new Block keeps as this[LABELS] when BlockContent
\* __call__ passes this[LABELS]: the very same array (no copy is made).
BlockLabelsRef(arr) == arr

\* A call without its default: the body is the argument as it is.
BodyAsGiven(body) == body

\* `body = {}`
BodyArg(body) == IF body = NoArg THEN DefaultBody ELSE body

\* A value the client holds.  kind and path are history: the factory the
\* chain started from and the names accessed, in order, to get the value.
\* chain is history too: TRUE when the value is the result of one unbroken
\* chain factory.n1.n2...nk, each access made on the result of the one before
\* and on no other value of that builder.
BuilderRef(k, t, path, chain) ==
    [tag |-> "builder", kind |-> k, target |-> t, path |-> path, chain |-> chain]
MemberRef(k, path, chain) ==
    [tag |-> "member", kind |-> k, target |-> 0, path |-> path, chain |-> chain]

\* TRUE when no name was accessed on the builder of value r other than the
\* names of r's own path.
Unbroken(r) ==
    /\ refs[r].chain
    /\ builders[refs[r].target].gets = Len(refs[r].path)

\* new BlockContent(type, label) reached through the TerraformBlock proxy:
\* factory.X
FactoryGet(k, x) ==
    /\ Len(refs) < MaxRefs
    /\ IF HasProperty(x)
       THEN \* return target[property]
            /\ refs' = Append(refs, MemberRef(k, <<x>>, TRUE))
            /\ UNCHANGED <<arrays, builders>>
       ELSE /\ arrays' = Append(arrays, FirstLabels(x))
            /\ builders' = Append(builders,
                   [type |-> k, labels |-> Len(arrays) + 1, gets |-> 1])
            /\ refs' = Append(refs, BuilderRef(k, Len(builders) + 1, <<x>>, TRUE))
    /\ UNCHANGED <<blocks, created>>
    /\ UNCHANGED <<gvars, evars, cvars>>

\* The BlockContent proxy: b.Y, for a builder value b the client holds.
BuilderGet(r, y) ==
    /\ Len(refs) < MaxRefs
    /\ refs[r].tag = "builder"
    /\ LET t == refs[r].target
           a == builders[t].labels
           path == Append(refs[r].path, y)
       IN IF HasProperty(y)
          THEN \* return target[property]
               /\ refs' = Append(refs, MemberRef(refs[r].kind, path, Unbroken(r)))
               /\ UNCHANGED <<arrays, builders>>
          ELSE /\ arrays' = [arrays EXCEPT ![a] = PushLabel(@, y)]
               /\ builders' = [builders EXCEPT ![t].gets = @ + 1]
               \* new Proxy(target, this): the same target
               /\ refs' = Append(refs, BuilderRef(refs[r].kind, t, path, Unbroken(r)))
    /\ UNCHANGED <<blocks, created>>
    /\ UNCHANGED <<gvars, evars, cvars>>

\* new Block(type, labels, body).  created keeps the block as constructed,
\* with the chain it came from (kind, path, chain) and the argument given.
NewBlock(type, arr, body, k, path, chain, arg) ==
    /\ blocks' = Append(blocks, [type |-> type, labels |-> arr, body |-> body])
    /\ created' = Append(created,
           [type |-> type, labels |-> arrays'[arr], body |-> body,
            kind |-> k, path |-> path, chain |-> chain, arg |-> arg])

\* BlockContent.__call__: b(body)
BuilderCall(r, body) ==
    /\ Len(blocks) < MaxBlocks
    /\ refs[r].tag = "builder"
    /\ LET t == refs[r].target IN
         /\ UNCHANGED <<arrays, builders, refs>>
         /\ NewBlock(builders[t].type, BlockLabelsRef(builders[t].labels),
                     BodyArg(body), refs[r].kind, refs[r].path, Unbroken(r), body)
    /\ UNCHANGED <<gvars, evars, cvars>>

\* TerraformBlock.__call__: factory(body)
FactoryCall(k, body) ==
    /\ Len(blocks) < MaxBlocks
    /\ arrays' = Append(arrays, <<>>)
    /\ UNCHANGED <<builders, refs>>
    /\ NewBlock(k, Len(arrays) + 1, BodyArg(body), k, <<>>, TRUE, body)
    /\ UNCHANGED <<gvars, evars, cvars>>

\* The fields of block j as they are now.
BlockType(j) == blocks[j].type
BlockLabels(j) == arrays[blocks[j].labels]
BlockBody(j) == blocks[j].body

\* The label sequence of builder t as it is now.
BuilderLabels(t) == arrays[builders[t].labels]

InitBuilderHeap ==
    /\ arrays = <<>>
    /\ builders = <<>>
    /\ refs = <<>>
    /\ blocks = <<>>
    /\ created = <<>>


----------------------------------------------------------------------------
(* The values generateJSON receives *)

\* An element of the blocks argument.  t is what the value is: "array",
\* "block" (a Block: type, labels, body) or the kind of any other value.
ArrayOf(items) ==
    [t |-> "array", items |-> items, type |-> "", labels |-> <<>>, body |-> DefaultBody]
BlockOf(type, labels, body) ==
    [t |-> "block", items |-> <<>>, type |-> type, labels |-> labels, body |-> body]
OtherOf(what) ==
    [t |-> what, items |-> <<>>, type |-> "", labels |-> <<>>, body |-> DefaultBody]

\* A Chain Builder (type, labels) and a Top-Level Factory (type) that were
\* never invoked.  Their body field is what block[BODY] gives: a function.
BuilderLeafOf(type, labels) ==
    [t |-> "builder", items |-> <<>>, type |-> type, labels |-> labels,
     body |-> Body("sync", EmptyObject, FALSE)]
FactoryLeafOf(type) ==
    [t |-> "factory", items |-> <<>>, type |-> type, labels |-> <<>>,
     body |-> Body("sync", EmptyObject, FALSE)]

\* The value an Error carries.
ErrorOf(name, message) == {<<"name", name>>, <<"message", message>>}

\* Blocks of the input: every way a body can be given and behave.
StaticBlock ==
    BlockOf("resource", <<"aws_instance", "web">>,
            Body("none", {<<"instance_type", "t2.micro">>}, FALSE))
SyncBlock ==
    BlockOf("terraform", <<>>, Body("sync", {<<"required_version", ">= 0.12">>}, FALSE))
PromiseBlock ==
    BlockOf("provider", <<"aws">>, Body("promise", {<<"region", "us-east-1">>}, FALSE))
ThrowingBlock ==
    BlockOf("variable", <<"token">>, Body("sync", ErrorOf("Error", "thrown"), TRUE))
RejectingBlock ==
    BlockOf("output", <<"ip_address">>, Body("promise", ErrorOf("Error", "Failure"), TRUE))

InputBlocks == {StaticBlock, SyncBlock, PromiseBlock, ThrowingBlock, RejectingBlock}

\* The leaves that are neither arrays nor Blocks.
OtherKinds == {"string", "number", "boolean", "object", "null", "undefined"}

InputLeaves == InputBlocks \cup {OtherOf(w) : w \in OtherKinds}

\* value nested in d arrays: [[...[value]...]]
RECURSIVE Wrapped(_, _)
Wrapped(value, d) == IF d = 0 THEN value ELSE ArrayOf(<<Wrapped(value, d - 1)>>)

\* The shapes of the blocks argument built from the leaves ls, with inner
\* arrays d deep: every leaf in its own arrays; all leaves in one inner array;
\* leaf i nested i - 1 deep (at most d); the first leaf alone, the others in
\* one inner array followed by an empty array.
ShapesOf(ls, d) ==
    LET n == Len(ls) IN
    { ArrayOf([i \in 1..n |-> Wrapped(ls[i], d)]),
      Wrapped(ArrayOf(ls), d),
      ArrayOf([i \in 1..n |-> Wrapped(ls[i], IF i - 1 < d THEN i - 1 ELSE d)]),
      IF n = 0 THEN ArrayOf(<<Wrapped(ArrayOf(<<>>), d)>>)
      ELSE ArrayOf(<<ls[1], Wrapped(ArrayOf(SubSeq(ls, 2, n)), d), ArrayOf(<<>>)>>) }

\* The builders among the leaves: resource.aws_instance.web, and the
\* factories variable and provider.
BuilderLeaves ==
    { BuilderLeafOf("resource", <<"aws_instance", "web">>),
      FactoryLeafOf("variable"), FactoryLeafOf("provider") }

\* input is a blocks argument whose first leaf is a builder.
IsInputWithBuilder(arg) ==
    \E n \in 1..MaxLeaves, d \in 0..MaxDepth :
        \E ls \in [1..n -> InputLeaves \cup BuilderLeaves] :
            ls[1] \in BuilderLeaves /\ arg \in ShapesOf(ls, d)

\* input is a blocks argument of at most MaxLeaves leaves, MaxDepth deep.
IsInput(arg) ==
    \E n \in 0..MaxLeaves, d \in 0..MaxDepth :
        \E ls \in [1..n -> InputLeaves] : arg \in ShapesOf(ls, d)

----------------------------------------------------------------------------
(* src/base.js: Interpolation, Block.getExpression *)

\* A value the client of the reference expressions holds: the Block decl
\* itself, an Interpolation (text is its expression), a string (text is the
\* string) or a member of the object accessed (text is its name).
BlockValue == [tag |-> "block", text |-> ""]
InterpolationValue(expression) == [tag |-> "interpolation", text |-> expression]
StringValue(str) == [tag |-> "string", text |-> str]
MemberValue(name) == [tag |-> "member", text |-> name]

\* A property name is a sequence of one-character strings, so that
\* Number(prop) can be computed from its characters; Str gives the string.
RECURSIVE Str(_)
Str(cs) == IF cs = <<>> THEN "" ELSE Head(cs) \o Str(Tail(cs))

\* parts.join(sep)
RECURSIVE Join(_, _)
Join(parts, sep) ==
    IF parts = <<>> THEN ""
    ELSE IF Len(parts) = 1 THEN parts[1]
    ELSE parts[1] \o sep \o Join(Tail(parts), sep)

Digits == {"0", "1", "2", "3", "4", "5", "6", "7", "8", "9"}
HexDigits == Digits \cup {"a", "b", "c", "d", "e", "f", "A", "B", "C", "D", "E", "F"}
WhiteSpace == {" ", "\t", "\n", "\r"}

AllIn(cs, S) == \A i \in 1..Len(cs) : cs[i] \in S

\* The string without its leading and trailing white space.
RECURSIVE Trim(_)
Trim(cs) ==
    IF cs = <<>> THEN cs
    ELSE IF Head(cs) \in WhiteSpace THEN Trim(Tail(cs))
    ELSE IF cs[Len(cs)] \in WhiteSpace THEN Trim(SubSeq(cs, 1, Len(cs) - 1))
    ELSE cs

Unsigned(cs) == IF cs # <<>> /\ Head(cs) \in {"+", "-"} THEN Tail(cs) ELSE cs

\* DecimalDigits . DecimalDigits(opt) | . DecimalDigits | DecimalDigits
IsMantissa(cs) ==
    \E i \in 0..Len(cs) :
        LET int == SubSeq(cs, 1, i)
            rest == SubSeq(cs, i + 1, Len(cs))
        IN /\ AllIn(int, Digits)
           /\ IF rest = <<>> THEN int # <<>>
              ELSE /\ Head(rest) = "."
                   /\ AllIn(Tail(rest), Digits)
                   /\ (int # <<>> \/ Tail(rest) # <<>>)

\* the digits of an ExponentPart, after e or E
IsExponent(cs) == Unsigned(cs) # <<>> /\ AllIn(Unsigned(cs), Digits)

IsUnsignedDecimal(cs) ==
    \/ IsMantissa(cs)
    \/ \E i \in 1..Len(cs) :
          /\ cs[i] \in {"e", "E"}
          /\ IsMantissa(SubSeq(cs, 1, i - 1))
          /\ IsExponent(SubSeq(cs, i + 1, Len(cs)))

\* StrDecimalLiteral: an optional sign, then Infinity or a decimal number
IsStrDecimalLiteral(cs) ==
    \/ Unsigned(cs) = <<"I", "n", "f", "i", "n", "i", "t", "y">>
    \/ IsUnsignedDecimal(Unsigned(cs))

\* NonDecimalIntegerLiteral: 0x.., 0o.., 0b..
IsNonDecimalInteger(cs) ==
    /\ Len(cs) >= 3
    /\ cs[1] = "0"
    /\ LET ds == SubSeq(cs, 3, Len(cs))
       IN \/ cs[2] \in {"x", "X"} /\ AllIn(ds, HexDigits)
          \/ cs[2] \in {"o", "O"} /\ AllIn(ds, {"0", "1", "2", "3", "4", "5", "6", "7"})
          \/ cs[2] \in {"b", "B"} /\ AllIn(ds, {"0", "1"})

\* isNaN(Number(prop)): Number gives NaN unless the string, trimmed, is
\* empty (0) or a numeric literal.
NumberIsNaN(cs) ==
    LET t == Trim(cs)
    IN ~(t = <<>> \/ IsStrDecimalLiteral(t) \/ IsNonDecimalInteger(t))

\* const isIndex = !isNaN(Number(prop))
IsIndex(cs) == ~NumberIsNaN(cs)

\* The members every object has from Object.prototype.
ObjectMembers == {"constructor", "hasOwnProperty", "isPrototypeOf",
                  "propertyIsEnumerable", "toLocaleString", "toString",
                  "valueOf", "__proto__", "__defineGetter__",
                  "__defineSetter__", "__lookupGetter__", "__lookupSetter__"}

\* `property in target` for an Interpolation target
InInterpolation(property) ==
    property \in {"expression", "toString", "toJSON"} \cup ObjectMembers

\* `property in target` for a Block target (its own properties are symbols)
InBlock(property) ==
    property \in {"getExpression", "toString", "toJSON"} \cup ObjectMembers

\* An expression returned as it is, not as an Interpolation.
RawString(expression) == StringValue(expression)

\* new Interpolation(expression)
NewInterpolation(expression) == InterpolationValue(expression)

\* The get trap of the Interpolation proxy, for a property that is not in
\* the target.
ExtendExpression(expression, cs) ==
    IF IsIndex(cs)
    THEN NewInterpolation(expression \o "[" \o Str(cs) \o "]")
    ELSE NewInterpolation(expression \o "." \o Str(cs))

\* The expression as it is, without ${}.
Unwrapped(expression) == expression

\* Interpolation.toString(), toJSON() and [Symbol.toPrimitive]()
InterpolationToString(expression) == "${" \o expression \o "}"
InterpolationToJSON(expression) == InterpolationToString(expression)
InterpolationToPrimitive(expression) == InterpolationToString(expression)

Conversions == {"toString", "toJSON", "toPrimitive"}

InterpolationConvert(via, expression) ==
    CASE via = "toString" -> InterpolationToString(expression)
      [] via = "toJSON" -> InterpolationToJSON(expression)
      [] via = "toPrimitive" -> InterpolationToPrimitive(expression)

\* The switch on this[TYPE]: what comes before the labels.
Prefix(type) ==
    CASE type \in {"resource", "provider"} -> <<>>
      [] type = "variable" -> <<"var">>
      [] type = "locals" -> <<"local">>
      [] OTHER -> <<type>>

\* this[BODY].alias: <<>> when undefined, else <<the value>>.  A function
\* body has no such property.
AliasOf(body) ==
    IF body.fn = "none" /\ \E p \in body.val : p[1] = "alias"
    THEN <<(CHOOSE p \in body.val : p[1] = "alias")[2]>>
    ELSE <<>>

\* Truthiness of a string that may be undefined (<<>>).
TruthyString(opt) == opt # <<>> /\ opt[1] # ""

\* What is pushed after the labels of a provider: this[BODY].alias when it
\* is truthy, else 'default' when prop == 'alias'.  The bodies of the model
\* are objects and functions, which are truthy.
ProviderAlias(body, prop) ==
    IF TruthyString(AliasOf(body)) THEN AliasOf(body)
    ELSE IF prop = <<"alias">> THEN <<"default">>
    ELSE <<>>

\* `if (prop) parts.push(prop)`
TrailingName(prop) == IF TruthyString(prop) THEN prop ELSE <<>>

\* The parts joined and wrapped as the other kinds are.
ProviderWrapped(parts) == InterpolationValue(Join(parts, "."))

\* `return parts.join('.')` of a provider
ProviderExpression(parts) == StringValue(Join(parts, "."))

\* Block.getExpression(prop); prop is <<>> when the argument is undefined.
GetExpression(block, prop) ==
    LET labelled == Prefix(block.type) \o block.labels
    IN IF block.type = "provider"
       THEN ProviderExpression(labelled \o ProviderAlias(block.body, prop))
       ELSE NewInterpolation(Join(labelled \o TrailingName(prop), "."))

\* String(v) of what getExpression returns
StringOf(v) ==
    IF v.tag = "interpolation" THEN InterpolationToPrimitive(v.text) ELSE v.text

\* The type of the Block in place of its reference.
BlockTypeName(block) == block.type

\* Block.toString(), toJSON() and [Symbol.toPrimitive]()
BlockToString(block) == StringOf(GetExpression(block, <<>>))

----------------------------------------------------------------------------
(* src/utils.js: createBlockObject *)

\* A JavaScript value that is serialized: a string or an object, whose
\* entries e are its <<key, value>> pairs in insertion order.
JString(str) == [t |-> "string", s |-> str, e |-> <<>>]
JObject(entries) == [t |-> "object", s |-> "", e |-> entries]

\* The object literal val (a set of <<key, string>> pairs; the bodies of the
\* model hold at most one pair) as a value.
RECURSIVE EntriesOf(_)
EntriesOf(val) ==
    IF val = {} THEN <<>>
    ELSE LET kv == CHOOSE kv \in val : TRUE
         IN <<<<kv[1], JString(kv[2])>>>> \o EntriesOf(val \ {kv})

ObjectValue(val) == JObject(EntriesOf(val))

\* The labels folded from the left: the first label ends up innermost.
RECURSIVE ReduceLeft(_, _)
ReduceLeft(labels, body) ==
    IF labels = <<>> THEN body
    ELSE ReduceLeft(Tail(labels), JObject(<<<<Head(labels), body>>>>))

\* block[LABELS].reduceRight((value, key) => ({ [key]: value }), body)
RECURSIVE ReduceRight(_, _)
ReduceRight(labels, body) ==
    IF labels = <<>> THEN body
    ELSE ReduceRight(SubSeq(labels, 1, Len(labels) - 1),
                     JObject(<<<<labels[Len(labels)], body>>>>))

\* Truthiness of block[TYPE]
Truthy(type) == type # "" /\ type # "undefined"

\* The value createBlockObject returns for a block whose body resolved to the
\* object literal val.
\* For a Block: the labels folded around the body.  For a Chain Builder:
\* block[BODY] is not in the target, so the proxy pushes 'Symbol(body)' on
\* the labels and returns the builder; body() is __call__(), a Block of
\* these labels, which the labels are then folded around.  For a factory:
\* block[BODY] and block[LABELS] are new BlockContent objects, and
\* block[LABELS].reduceRight(callback, body) is a label access followed by
\* __call__(callback): a Block of labels ['Symbol(labels)', 'reduceRight'].
\* JSON.stringify writes a Block in an object as its toJSON().
BlockObject(block, val) ==
    IF ~Truthy(block.type) THEN JObject(<<>>)
    ELSE IF block.t = "builder"
    THEN LET ls == PushLabel(block.labels, "Symbol(body)")
         IN JObject(<<<<block.type,
                ReduceRight(ls, JString(BlockToString(
                    BlockOf(block.type, BlockLabelsRef(ls), BodyArg(NoArg)))))>>>>)
    ELSE IF block.t = "factory"
    THEN LET ls == PushLabel(FirstLabels("Symbol(labels)"), "reduceRight")
         IN JObject(<<<<block.type,
                JString(BlockToString(
                    BlockOf(block.type, BlockLabelsRef(ls), Body("sync", EmptyObject, FALSE))))>>>>)
    ELSE JObject(<<<<block.type, ReduceRight(block.labels, ObjectValue(val))>>>>)

\* A failure of body() caught and dropped: the call goes on with what the
\* body holds.
AwaitIgnoringFailure(body) == [ok |-> TRUE, val |-> body.val]

\* A failure of body() replaced by a new error of createBlockObject.
AwaitWrappingFailure(body) ==
    IF body.fails
    THEN [ok |-> FALSE, val |-> {<<"name", "Error">>, <<"message", "body failed">>}]
    ELSE [ok |-> TRUE, val |-> body.val]

\* body() called without the await: a promise is used as the body itself,
\* and a promise has no enumerable property of its own.
AwaitMissing(body) ==
    IF body.fn = "promise" THEN [ok |-> TRUE, val |-> {}]
    ELSE IF body.fails THEN [ok |-> FALSE, val |-> body.val]
    ELSE [ok |-> TRUE, val |-> body.val]

\* `body = await body()`: what the await gives for a function body.  A
\* function that throws and a promise that rejects both make the await
\* throw the very value thrown or rejected.
AwaitBody(body) ==
    IF body.fails THEN [ok |-> FALSE, val |-> body.val]
    ELSE [ok |-> TRUE, val |-> body.val]

\* `typeof body === 'function'`
IsFunction(body) == body.fn \in {"sync", "promise"}


----------------------------------------------------------------------------
(* src/utils.js: generateJSON *)

\* The space argument of JSON.stringify(objects, null, 2)
Indent == 2

RECURSIVE Spaces(_)
Spaces(n) == IF n = 0 THEN "" ELSE " " \o Spaces(n - 1)

\* JSON text of a string; the strings of the model need no escaping.
Quoted(str) == "\"" \o str \o "\""

\* JSON.stringify of a value that starts at indentation ind.
RECURSIVE Serialize(_, _)
RECURSIVE SerializeEntries(_, _, _)
Serialize(value, ind) ==
    IF value.t = "string" THEN Quoted(value.s)
    ELSE IF value.e = <<>> THEN "{}"
    ELSE "{\n" \o SerializeEntries(value.e, 1, ind + Indent) \o "\n" \o Spaces(ind) \o "}"
SerializeEntries(entries, i, ind) ==
    LET line == Spaces(ind) \o Quoted(entries[i][1]) \o ": "
                  \o Serialize(entries[i][2], ind)
    IN IF i = Len(entries) THEN line
       ELSE line \o ",\n" \o SerializeEntries(entries, i + 1, ind)

RECURSIVE SerializeItems(_, _)
SerializeItems(objs, i) ==
    LET line == Spaces(Indent) \o Serialize(objs[i], Indent)
    IN IF i = Len(objs) THEN line ELSE line \o ",\n" \o SerializeItems(objs, i + 1)

\* JSON.stringify(objects, null, 2)
Stringify(objs) ==
    IF objs = <<>> THEN "[]" ELSE "[\n" \o SerializeItems(objs, 1) \o "\n]"

\* `value[TYPE]`: reading a property of null or undefined throws a
\* TypeError; a Block gives its type, and so do a Chain Builder and a
\* factory, whose targets hold TYPE; any other value has no such property.
ReadType(value) ==
    IF value.t \in {"null", "undefined"} THEN [throws |-> TRUE, type |-> "undefined"]
    ELSE IF value.t \in {"block", "builder", "factory"}
    THEN [throws |-> FALSE, type |-> value.type]
    ELSE [throws |-> FALSE, type |-> "undefined"]

TypeErrorValue == ErrorOf("TypeError", "Cannot read properties of null or undefined")
WriteErrorValue == ErrorOf("Error", "Error writing the file")

\* A push at the wrong end: objects.unshift(object).
PushObjectFirst(objs, object) == <<object>> \o objs

\* objects.push(object)
PushObject(objs, object) == Append(objs, object)

\* body() invoked and not awaited: the loop goes on at once.
NoAwait == "walk"

\* Where the call is once body() has been invoked: `await body()` suspends
\* createBlockObject, and with it processBlocks, until the result settles.
AfterInvoke == "await"

Top == stack[Len(stack)]
Current == Top.items[Top.idx]
AtValue == pc = "walk" /\ stack # <<>> /\ Top.idx <= Len(Top.items)

\* The for loop of the innermost processBlocks moves to its next value.
Advanced == [stack EXCEPT ![Len(stack)].idx = @ + 1]

Event(what, n) == [e |-> what, n |-> n]

\* Array.isArray(value): processBlocks loops over the inner array.
EnterArray ==
    /\ AtValue
    /\ Current.t = "array"
    /\ stack' = Append(stack, [items |-> Current.items, idx |-> 1])
    /\ UNCHANGED <<input, pc, objects, inflight, events, seen, writes, error>>
    /\ UNCHANGED <<bvars, evars, cvars>>

\* The for loop of a processBlocks is over: it returns to its caller.
LeaveArray ==
    /\ pc = "walk" /\ stack # <<>>
    /\ Top.idx > Len(Top.items)
    /\ LET rest == SubSeq(stack, 1, Len(stack) - 1)
       IN stack' = IF rest = <<>> THEN rest
                   ELSE [rest EXCEPT ![Len(rest)].idx = @ + 1]
    /\ UNCHANGED <<input, pc, objects, inflight, events, seen, writes, error>>
    /\ UNCHANGED <<bvars, evars, cvars>>

\* `else if (value[TYPE])` is false: the value is passed over.
SkipValue ==
    /\ AtValue
    /\ Current.t # "array"
    /\ ~ReadType(Current).throws
    /\ ~Truthy(ReadType(Current).type)
    /\ stack' = Advanced
    /\ UNCHANGED <<input, pc, objects, inflight, events, seen, writes, error>>
    /\ UNCHANGED <<bvars, evars, cvars>>

\* `value[TYPE]` throws: processBlocks, and so generateJSON, rejects.
ReadTypeThrows ==
    /\ AtValue
    /\ Current.t # "array"
    /\ ReadType(Current).throws
    /\ pc' = "failed"
    /\ error' = TypeErrorValue
    /\ UNCHANGED <<input, stack, objects, inflight, events, seen, writes>>
    /\ UNCHANGED <<bvars, evars, cvars>>

IsDeclaration(value) ==
    value.t # "array" /\ ~ReadType(value).throws /\ Truthy(ReadType(value).type)

\* createBlockObject of a block whose body is an object.
ObjectBody ==
    /\ AtValue
    /\ IsDeclaration(Current)
    /\ ~IsFunction(Current.body)
    /\ seen' = Append(seen, Current)
    /\ objects' = PushObject(objects, BlockObject(Current, Current.body.val))
    /\ stack' = Advanced
    /\ UNCHANGED <<input, pc, inflight, events, writes, error>>
    /\ UNCHANGED <<bvars, evars, cvars>>

\* createBlockObject of a block whose body is a function: body() is invoked.
\* A plain function has returned or thrown when the call is over; a promise
\* stays in flight until it settles.
InvokeBody ==
    /\ AtValue
    /\ IsDeclaration(Current)
    /\ IsFunction(Current.body)
    /\ LET n == Len(seen) + 1
           b == Current.body
       IN /\ seen' = Append(seen, Current)
          /\ IF b.fn = "promise"
             THEN /\ events' = Append(events, Event("invoke", n))
                  /\ inflight' = inflight \cup {n}
             ELSE /\ events' = events \o
                       <<Event("invoke", n),
                         Event(IF b.fails THEN "failed" ELSE "completed", n)>>
                  /\ UNCHANGED inflight
    /\ pc' = AfterInvoke
    /\ UNCHANGED <<input, stack, objects, writes, error>>
    /\ UNCHANGED <<bvars, evars, cvars>>

\* The events that the settling of the awaited body adds.
EventsWhenSettled(b, n) ==
    IF b.fn = "promise"
    THEN Append(events, Event(IF b.fails THEN "failed" ELSE "completed", n))
    ELSE events

\* The await gives a value: the object is pushed and the loop goes on.
BodyResolved ==
    /\ pc = "await"
    /\ AwaitBody(Current.body).ok
    /\ events' = EventsWhenSettled(Current.body, Len(seen))
    /\ inflight' = inflight \ {Len(seen)}
    /\ objects' = PushObject(objects, BlockObject(Current, AwaitBody(Current.body).val))
    /\ stack' = Advanced
    /\ pc' = "walk"
    /\ UNCHANGED <<input, seen, writes, error>>
    /\ UNCHANGED <<bvars, evars, cvars>>

\* The await throws: createBlockObject, processBlocks and generateJSON
\* reject with the value thrown.
BodyRejected ==
    /\ pc = "await"
    /\ ~AwaitBody(Current.body).ok
    /\ events' = EventsWhenSettled(Current.body, Len(seen))
    /\ inflight' = inflight \ {Len(seen)}
    /\ pc' = "failed"
    /\ error' = AwaitBody(Current.body).val
    /\ UNCHANGED <<input, stack, objects, seen, writes>>
    /\ UNCHANGED <<bvars, evars, cvars>>

\* processBlocks(blocks) has returned: fs.writeFile is called.
IssueWrite ==
    /\ pc = "walk" /\ stack = <<>>
    /\ writes' = Append(writes, Stringify(objects))
    /\ pc' = "writing"
    /\ UNCHANGED <<input, stack, objects, inflight, events, seen, error>>
    /\ UNCHANGED <<bvars, evars, cvars>>

\* The promise of fs.writeFile, which generateJSON returns, resolves.
WriteResolved ==
    /\ pc = "writing"
    /\ pc' = "done"
    /\ UNCHANGED <<input, stack, objects, inflight, events, seen, writes, error>>
    /\ UNCHANGED <<bvars, evars, cvars>>

\* The promise of fs.writeFile rejects.
WriteRejected ==
    /\ pc = "writing"
    /\ pc' = "failed"
    /\ error' = WriteErrorValue
    /\ UNCHANGED <<input, stack, objects, inflight, events, seen, writes>>
    /\ UNCHANGED <<bvars, evars, cvars>>

\* No conversion has been made of the value held.
NoOut == [via |-> "none", text |-> ""]

\* No reference expression is being read.
InitExprIdle ==
    /\ decl = OtherOf("undefined")
    /\ held = MemberValue("")
    /\ prev = MemberValue("")
    /\ trail = <<>>
    /\ out = NoOut

\* The terraformjs command is not running.
InitCliIdle ==
    /\ cmd = "undefined"
    /\ disk = <<>>
    /\ disk0 = <<>>
    /\ rpc = "idle"
    /\ phase = "pre"
    /\ files = <<>>
    /\ idx = 1
    /\ log = <<>>
    /\ closeCode = <<>>
    /\ exitCode = <<>>

InitGen ==
    /\ InitBuilderHeap
    /\ InitExprIdle
    /\ InitCliIdle
    /\ IsInput(input)
    /\ stack = <<[items |-> input.items, idx |-> 1]>>
    /\ pc = "walk"
    /\ objects = <<>>
    /\ inflight = {}
    /\ events = <<>>
    /\ seen = <<>>
    /\ writes = <<>>
    /\ error = {}

NextGen ==
    \/ EnterArray
    \/ LeaveArray
    \/ SkipValue
    \/ ReadTypeThrows
    \/ ObjectBody
    \/ InvokeBody
    \/ BodyResolved
    \/ BodyRejected
    \/ IssueWrite
    \/ WriteResolved
    \/ WriteRejected

SpecGen == InitGen /\ [][NextGen]_vars

\* One call of generateJSON whose blocks argument holds a builder that was
\* never invoked.
InitGenWithBuilder ==
    /\ InitBuilderHeap
    /\ InitExprIdle
    /\ InitCliIdle
    /\ IsInputWithBuilder(input)
    /\ stack = <<[items |-> input.items, idx |-> 1]>>
    /\ pc = "walk"
    /\ objects = <<>>
    /\ inflight = {}
    /\ events = <<>>
    /\ seen = <<>>
    /\ writes = <<>>
    /\ error = {}

SpecGenWithBuilder == InitGenWithBuilder /\ [][NextGen]_vars

\* The client program of the builders; no generateJSON call is running.
InitGenIdle ==
    /\ input = ArrayOf(<<>>)
    /\ stack = <<>>
    /\ pc = "idle"
    /\ objects = <<>>
    /\ inflight = {}
    /\ events = <<>>
    /\ seen = <<>>
    /\ writes = <<>>
    /\ error = {}

InitBuilder == InitBuilderHeap /\ InitGenIdle /\ InitExprIdle /\ InitCliIdle

NextBuilder ==
    \/ \E k \in ClientKinds, x \in Names : FactoryGet(k, x)
    \/ \E r \in 1..Len(refs), y \in Names : BuilderGet(r, y)
    \/ \E r \in 1..Len(refs), b \in ClientBodies \cup {NoArg} : BuilderCall(r, b)
    \/ \E k \in ClientKinds, b \in ClientBodies \cup {NoArg} : FactoryCall(k, b)

SpecBuilder == InitBuilder /\ [][NextBuilder]_vars


----------------------------------------------------------------------------
(* A client of the reference expressions *)

\* The property names the client accesses: names, indexes, other numeric
\* strings, the empty string, and members of the objects accessed.
PropNames ==
    { <<"i", "d">>, <<"a", "l", "i", "a", "s">>, <<"0">>, <<"1", "0", "0">>,
      <<"-", "1">>, <<"1", ".", "5">>, <<>>,
      <<"t", "o", "S", "t", "r", "i", "n", "g">>,
      <<"e", "x", "p", "r", "e", "s", "s", "i", "o", "n">> }

ExprLabels == {<<>>, <<"aws">>, <<"do_token">>, <<"aws_instance", "www">>}

ExprBodies ==
    { DefaultBody,
      Body("none", {<<"alias", "west">>}, FALSE),
      Body("none", {<<"alias", "">>}, FALSE),
      Body("sync", {<<"alias", "west">>}, FALSE) }

\* The Blocks and the Interpolations the client starts from.
Decls == {BlockOf(k, ls, b) : k \in Kinds, ls \in ExprLabels, b \in ExprBodies}
Expressions == {"a", "aws_instance.www", "var.foo"}

\* block.P: the get trap of the Block proxy
BlockGet(p) ==
    /\ held.tag = "block"
    /\ Len(trail) < MaxAccesses
    /\ held' = IF InBlock(Str(p)) THEN MemberValue(Str(p))
               ELSE GetExpression(decl, <<Str(p)>>)
    /\ prev' = held
    /\ trail' = Append(trail, p)
    /\ out' = NoOut
    /\ UNCHANGED decl
    /\ UNCHANGED <<bvars, gvars, cvars>>

\* String(block), JSON.stringify(block), `${block}`
BlockConvert(via) ==
    /\ held.tag = "block"
    /\ out' = [via |-> via, text |-> BlockToString(decl)]
    /\ UNCHANGED <<decl, held, prev, trail>>
    /\ UNCHANGED <<bvars, gvars, cvars>>

\* interpolation.K: the get trap of the Interpolation proxy
InterpolationGet(k) ==
    /\ held.tag = "interpolation"
    /\ Len(trail) < MaxAccesses
    /\ held' = IF InInterpolation(Str(k)) THEN MemberValue(Str(k))
               ELSE ExtendExpression(held.text, k)
    /\ prev' = held
    /\ trail' = Append(trail, k)
    /\ out' = NoOut
    /\ UNCHANGED decl
    /\ UNCHANGED <<bvars, gvars, cvars>>

\* interpolation.toString(), JSON.stringify(interpolation), String(interpolation)
InterpolationRender(via) ==
    /\ held.tag = "interpolation"
    /\ out' = [via |-> via, text |-> InterpolationConvert(via, held.text)]
    /\ UNCHANGED <<decl, held, prev, trail>>
    /\ UNCHANGED <<bvars, gvars, cvars>>

\* String(s) of the string a provider Block gave
StringRender ==
    /\ held.tag = "string"
    /\ out' = [via |-> "String", text |-> held.text]
    /\ UNCHANGED <<decl, held, prev, trail>>
    /\ UNCHANGED <<bvars, gvars, cvars>>

\* The client holds a Block, or an Interpolation it constructed.
InitExpr ==
    /\ InitBuilderHeap
    /\ InitGenIdle
    /\ InitCliIdle
    /\ \/ decl \in Decls /\ held = BlockValue
       \/ decl = OtherOf("undefined") /\ held \in {NewInterpolation(e) : e \in Expressions}
    /\ prev = held
    /\ trail = <<>>
    /\ out = NoOut

NextExpr ==
    \/ \E p \in PropNames : BlockGet(p)
    \/ \E via \in Conversions : BlockConvert(via)
    \/ \E k \in PropNames : InterpolationGet(k)
    \/ \E via \in Conversions : InterpolationRender(via)
    \/ StringRender

SpecExpr == InitExpr /\ [][NextExpr]_vars

----------------------------------------------------------------------------
(* src/utils.js: getFiles *)

\* An fs.Dirent of the working directory: its name (a sequence of
\* characters), whether isFile() holds, and, as history, who made it: the
\* user, an earlier run of terraformjs, or this run.
Entry(name, file, by) == [name |-> name, file |-> file, by |-> by]

\* name.endsWith(ext)
EndsWith(name, ext) ==
    /\ Len(ext) <= Len(name)
    /\ SubSeq(name, Len(name) - Len(ext) + 1, Len(name)) = ext

\* The filter keeping every entry whose name ends with ext, directories too.
KeepByName(f, ext) == EndsWith(f.name, ext)

\* f => f.isFile() && f.name.endsWith(ext)
Keep(f, ext) == f.file /\ EndsWith(f.name, ext)

\* files.filter(...).map(f => f.name)
RECURSIVE FilterNames(_, _)
FilterNames(entries, ext) ==
    IF entries = <<>> THEN <<>>
    ELSE (IF Keep(Head(entries), ext) THEN <<Head(entries).name>> ELSE <<>>)
         \o FilterNames(Tail(entries), ext)

\* `ext = ''`
DefaultExt == <<>>

\* What fs.readdir(dir, { withFileTypes: true }) settles with: the entries,
\* or an error.
Listed(entries) == [ok |-> TRUE, entries |-> entries, err |-> {}]
ListingFailed(err) == [ok |-> FALSE, entries |-> <<>>, err |-> err]

ReaddirError == ErrorOf("Error", "ENOENT: no such file or directory, scandir")

\* getFiles(dir, ext): the await of readdir throws what readdir rejected
\* with; otherwise the names kept.
GetFiles(listing, ext) ==
    IF listing.ok THEN [ok |-> TRUE, names |-> FilterNames(listing.entries, ext), err |-> {}]
    ELSE [ok |-> FALSE, names |-> <<>>, err |-> listing.err]

----------------------------------------------------------------------------
(* src/cli.js *)

ExtJs == <<".", "t", "f", ".", "j", "s">>
ExtJson == <<".", "t", "f", ".", "j", "s", "o", "n">>

\* str.replace(pattern, replacement) with a string pattern: the first
\* occurrence is replaced.
RECURSIVE ReplaceFirst(_, _, _)
ReplaceFirst(str, pattern, replacement) ==
    IF Len(str) < Len(pattern) THEN str
    ELSE IF SubSeq(str, 1, Len(pattern)) = pattern
    THEN replacement \o SubSeq(str, Len(pattern) + 1, Len(str))
    ELSE <<Head(str)>> \o ReplaceFirst(Tail(str), pattern, replacement)

\* file.replace('.tf.js', '.tf.json')
JsonName(file) == ReplaceFirst(file, ExtJs, ExtJson)

versionArgs == {"-v", "-version", "--version", "version"}
skipGenerateArgs == {"undefined", "-h", "-help", "--help", "help", "0.12upgrade", "fmt"}

\* The flags run is called with.
GenerateFlag(c) == c \notin versionArgs /\ c \notin skipGenerateArgs

\* Terraform executed whatever the command is.
AlwaysExecute(c) == TRUE

ExecuteFlag(c) ==
    IF c \in versionArgs \/ c \in skipGenerateArgs THEN TRUE ELSE c # "generate"

\* The commands of the model: a command passed to Terraform, generate, and
\* commands that skip the generation (fmt, version, no command).
Cmds == {"apply", "generate", "fmt", "version", "undefined"}

\* The codes Terraform closes with.
ExitCodes == {0, 1, 2}

\* The entries a working directory may hold when the run starts: two
\* modules, the document of the first from an earlier run, a document the
\* user wrote (no module of that name), a directory named as a module, a
\* directory named as the document of the second module, another file.
Palette ==
    { Entry(<<"a">> \o ExtJs, TRUE, "user"),
      Entry(<<"b">> \o ExtJs, TRUE, "user"),
      Entry(<<"a">> \o ExtJson, TRUE, "earlier"),
      Entry(<<"c">> \o ExtJson, TRUE, "user"),
      Entry(<<"d">> \o ExtJs, FALSE, "user"),
      Entry(<<"b">> \o ExtJson, FALSE, "user"),
      Entry(<<"n", ".", "t", "x", "t">>, TRUE, "user") }

\* A directory listing: distinct entries of the palette, in any order.
IsDirectory(entries) ==
    /\ \A i \in 1..Len(entries) : entries[i] \in Palette
    /\ \A i, j \in 1..Len(entries) : i # j => entries[i] # entries[j]

\* The entries without the one named name.
RECURSIVE Without(_, _)
Without(entries, name) ==
    IF entries = <<>> THEN <<>>
    ELSE (IF Head(entries).name = name THEN <<>> ELSE <<Head(entries)>>)
         \o Without(Tail(entries), name)

HasDirectory(entries, name) ==
    \E i \in 1..Len(entries) : entries[i].name = name /\ ~entries[i].file

\* fs.writeFile(path, ...) done: the file is there, made by this run.
WithFile(entries, name) == Append(Without(entries, name), Entry(name, TRUE, "run"))

\* The catch handlers of the generate branch go on instead of exiting.
FallThrough(ex) == IF ex THEN "spawn" ELSE "ended"

\* process.exit(1) in the catch handlers of the generate branch
AfterFailure(ex) == "exited"

\* Terraform spawned right after the removal of the previous files.
SkipGeneration == "spawn"

\* After removeFiles of the generate branch comes generateFiles.
AfterPreRemoval == "generate"

\* The run exits with 0 whatever Terraform closed with.
ExitZero(code) == <<0>>

\* process.exit(code) in the close handler
ExitWith(code) == code

\* process.cwd()
Cwd == <<"/", "w">>

\* path.join(dir, file)
FullPath(file) == Cwd \o <<"/">> \o file

\* The name in the working directory of the file that generateJSON is given
\* as fullPath.replace('.tf.js', '.tf.json').
TargetName(file) ==
    LET target == ReplaceFirst(FullPath(file), ExtJs, ExtJson)
    IN SubSeq(target, Len(Cwd) + 2, Len(target))

\* An entry of the log: something done, or a failure caught (at: the call
\* that failed; err: what it failed with).
Done(what, name) ==
    [e |-> what, name |-> name, phase |-> phase, at |-> "", err |-> {}]
Failed(at, err) ==
    [e |-> "failed", name |-> <<>>, phase |-> phase, at |-> at, err |-> err]

\* What a failure of removeFiles leads to: in the generate branch the catch
\* handler exits with 1; in the close handler the error is logged and the
\* run exits with the code of Terraform.
RemovalFailed(at, err) ==
    /\ log' = Append(log, Failed(at, err))
    /\ IF phase = "pre"
       THEN /\ rpc' = AfterFailure(ExecuteFlag(cmd))
            /\ exitCode' = IF rpc' = "exited" THEN <<1>> ELSE <<>>
       ELSE /\ rpc' = "exited"
            /\ exitCode' = ExitWith(closeCode)

\* What a failure of generateFiles leads to: the catch handler exits with 1.
GenerationFailed(at, err) ==
    /\ log' = Append(log, Failed(at, err))
    /\ rpc' = AfterFailure(ExecuteFlag(cmd))
    /\ exitCode' = IF rpc' = "exited" THEN <<1>> ELSE <<>>

\* run(generate, execute, args) is called.
Run ==
    /\ rpc = "start"
    /\ rpc' = IF GenerateFlag(cmd) THEN "remove"
              ELSE IF ExecuteFlag(cmd) THEN "spawn" ELSE "ended"
    /\ UNCHANGED <<cmd, disk, disk0, phase, files, idx, log, closeCode, exitCode>>
    /\ UNCHANGED <<bvars, gvars, evars>>

\* removeFiles: getFiles(dir, '.tf.json') resolves.
ListJson ==
    /\ rpc = "remove"
    /\ files' = GetFiles(Listed(disk), ExtJson).names
    /\ idx' = 1
    /\ rpc' = "unlink"
    /\ UNCHANGED <<cmd, disk, disk0, phase, log, closeCode, exitCode>>
    /\ UNCHANGED <<bvars, gvars, evars>>

\* removeFiles: getFiles(dir, '.tf.json') rejects.
ListJsonFails ==
    /\ rpc = "remove"
    /\ RemovalFailed("getFiles", GetFiles(ListingFailed(ReaddirError), ExtJson).err)
    /\ UNCHANGED <<cmd, disk, disk0, phase, files, idx, closeCode>>
    /\ UNCHANGED <<bvars, gvars, evars>>

\* removeFiles: await fs.promises.unlink(path.join(dir, file))
Unlink ==
    /\ rpc = "unlink"
    /\ idx <= Len(files)
    /\ disk' = Without(disk, files[idx])
    /\ log' = Append(log, Done("removed", files[idx]))
    /\ idx' = idx + 1
    /\ UNCHANGED <<cmd, disk0, rpc, phase, files, closeCode, exitCode>>
    /\ UNCHANGED <<bvars, gvars, evars>>

\* removeFiles: the unlink rejects.
UnlinkFails ==
    /\ rpc = "unlink"
    /\ idx <= Len(files)
    /\ RemovalFailed("unlink", ErrorOf("Error", "EACCES: permission denied, unlink"))
    /\ UNCHANGED <<cmd, disk, disk0, phase, files, idx, closeCode>>
    /\ UNCHANGED <<bvars, gvars, evars>>

\* removeFiles returns.
RemoveDone ==
    /\ rpc = "unlink"
    /\ idx > Len(files)
    /\ log' = Append(log, Done("removal-done", <<>>))
    /\ IF phase = "pre"
       THEN rpc' = AfterPreRemoval /\ UNCHANGED exitCode
       ELSE rpc' = "exited" /\ exitCode' = ExitWith(closeCode)
    /\ UNCHANGED <<cmd, disk, disk0, phase, files, idx, closeCode>>
    /\ UNCHANGED <<bvars, gvars, evars>>

\* generateFiles: getFiles(dir, '.tf.js') resolves.
ListModules ==
    /\ rpc = "generate"
    /\ files' = GetFiles(Listed(disk), ExtJs).names
    /\ idx' = 1
    /\ rpc' = "import"
    /\ UNCHANGED <<cmd, disk, disk0, phase, log, closeCode, exitCode>>
    /\ UNCHANGED <<bvars, gvars, evars>>

\* generateFiles: getFiles(dir, '.tf.js') rejects.
ListModulesFails ==
    /\ rpc = "generate"
    /\ GenerationFailed("getFiles", GetFiles(ListingFailed(ReaddirError), ExtJs).err)
    /\ UNCHANGED <<cmd, disk, disk0, phase, files, idx, closeCode>>
    /\ UNCHANGED <<bvars, gvars, evars>>

\* generateFiles: const blocks = await import(fullPath)
Import ==
    /\ rpc = "import"
    /\ idx <= Len(files)
    /\ log' = Append(log, Done("imported", files[idx]))
    /\ rpc' = "json"
    /\ UNCHANGED <<cmd, disk, disk0, phase, files, idx, closeCode, exitCode>>
    /\ UNCHANGED <<bvars, gvars, evars>>

\* generateFiles: the import rejects.
ImportFails ==
    /\ rpc = "import"
    /\ idx <= Len(files)
    /\ GenerationFailed("import", ErrorOf("SyntaxError", "Unexpected token"))
    /\ UNCHANGED <<cmd, disk, disk0, phase, files, idx, closeCode>>
    /\ UNCHANGED <<bvars, gvars, evars>>

\* generateFiles: await generateJSON(...) resolves; the name is pushed on
\* generatedFiles.  The write cannot succeed on the name of a directory.
WriteJson ==
    /\ rpc = "json"
    /\ ~HasDirectory(disk, TargetName(files[idx]))
    /\ disk' = WithFile(disk, TargetName(files[idx]))
    /\ log' = Append(log, Done("written", JsonName(files[idx])))
    /\ idx' = idx + 1
    /\ rpc' = "import"
    /\ UNCHANGED <<cmd, disk0, phase, files, closeCode, exitCode>>
    /\ UNCHANGED <<bvars, gvars, evars>>

\* generateFiles: generateJSON rejects: a body failed (nothing is written)
\* or the write failed (the file may have been created all the same).
WriteJsonFails(left) ==
    /\ rpc = "json"
    /\ disk' = IF left /\ ~HasDirectory(disk, TargetName(files[idx]))
               THEN WithFile(disk, TargetName(files[idx]))
               ELSE disk
    /\ GenerationFailed("generateJSON", WriteErrorValue)
    /\ UNCHANGED <<cmd, disk0, phase, files, idx, closeCode>>
    /\ UNCHANGED <<bvars, gvars, evars>>

\* generateFiles returns: Terraform is executed, or run returns.
GenerateDone ==
    /\ rpc = "import"
    /\ idx > Len(files)
    /\ log' = Append(log, Done("generated", <<>>))
    /\ rpc' = IF ExecuteFlag(cmd) THEN "spawn" ELSE "ended"
    /\ UNCHANGED <<cmd, disk, disk0, phase, files, idx, closeCode, exitCode>>
    /\ UNCHANGED <<bvars, gvars, evars>>

\* child_process.spawn('terraform', args, ...) starts Terraform.
Spawn ==
    /\ rpc = "spawn"
    /\ log' = Append(log, Done("spawned", <<>>))
    /\ rpc' = "running"
    /\ UNCHANGED <<cmd, disk, disk0, phase, files, idx, closeCode, exitCode>>
    /\ UNCHANGED <<bvars, gvars, evars>>

\* Terraform cannot be started: the child emits 'error', which has no
\* listener, and the process ends on the uncaught error.
SpawnError ==
    /\ rpc = "spawn"
    /\ log' = Append(log, Failed("spawn", ErrorOf("Error", "spawn terraform ENOENT")))
    /\ rpc' = "exited"
    /\ exitCode' = <<1>>
    /\ UNCHANGED <<cmd, disk, disk0, phase, files, idx, closeCode>>
    /\ UNCHANGED <<bvars, gvars, evars>>

\* terraform.on('close', async code => ...): the handler starts.
Close(code) ==
    /\ rpc = "running"
    /\ closeCode' = <<code>>
    /\ phase' = "post"
    /\ log' = Append(log, [Done("closed", <<>>) EXCEPT !.phase = "post"])
    /\ rpc' = "remove"
    /\ UNCHANGED <<cmd, disk, disk0, files, idx, exitCode>>
    /\ UNCHANGED <<bvars, gvars, evars>>

InitCli ==
    /\ InitBuilderHeap
    /\ InitGenIdle
    /\ InitExprIdle
    /\ cmd \in Cmds
    /\ \E n \in 0..MaxEntries : \E es \in [1..n -> Palette] : IsDirectory(es) /\ disk = es
    /\ disk0 = disk
    /\ rpc = "start"
    /\ phase = "pre"
    /\ files = <<>>
    /\ idx = 1
    /\ log = <<>>
    /\ closeCode = <<>>
    /\ exitCode = <<>>

NextCli ==
    \/ Run
    \/ ListJson
    \/ ListJsonFails
    \/ Unlink
    \/ UnlinkFails
    \/ RemoveDone
    \/ ListModules
    \/ ListModulesFails
    \/ Import
    \/ ImportFails
    \/ WriteJson
    \/ \E left \in BOOLEAN : WriteJsonFails(left)
    \/ GenerateDone
    \/ Spawn
    \/ SpawnError
    \/ \E code \in ExitCodes : Close(code)

SpecCli == InitCli /\ [][NextCli]_vars

----------------------------------------------------------------------------
(* Claims about the builders *)

\* C1 (as claimed): for every kind K and every sequence of N >= 0 names,
\* accessing the names one after another from the factory of kind K and
\* invoking the result with body B yields a Declaration with kind K, labels
\* equal to the N names in access order, and body B.
C1_ChainYieldsDeclaration ==
    \A j \in 1..Len(created) :
        (created[j].chain /\ created[j].arg # NoArg) =>
            /\ created[j].type = created[j].kind
            /\ created[j].labels = created[j].path
            /\ created[j].body = created[j].arg

\* What does hold of C1: for names that are not empty and not members of the
\* builder function, an unbroken chain yields the Declaration claimed.
PlainNames(path) == \A i \in 1..Len(path) : path[i] # "" /\ ~HasProperty(path[i])
ChainOfPlainNamesYieldsDeclaration ==
    \A j \in 1..Len(created) :
        (created[j].chain /\ created[j].arg # NoArg /\ PlainNames(created[j].path)) =>
            /\ created[j].type = created[j].kind
            /\ created[j].labels = created[j].path
            /\ created[j].body = created[j].arg

\* C2 (as claimed): accessing a name on a Chain Builder b has no side effect
\* on b: the label sequence of every existing builder is the same before and
\* after any step.
C2_AccessLeavesBuilderAlone ==
    [][\A t \in 1..Len(builders) : BuilderLabels(t)' = BuilderLabels(t)]_vars

\* C3 (as claimed): once a Declaration has been created its kind, its label
\* sequence and its body never change: they equal their values at creation.
C3_DeclarationNeverChanges ==
    \A j \in 1..Len(blocks) :
        /\ BlockType(j) = created[j].type
        /\ BlockLabels(j) = created[j].labels
        /\ BlockBody(j) = created[j].body

----------------------------------------------------------------------------
(* Claims about labels of the builders *)

\* C19 (as claimed): any string is a legal label, the empty string and the
\* names of members of the builder included: accessing X on the factory of
\* kind K gives a Chain Builder of kind K with labels [X], and accessing X on
\* a Chain Builder gives a Chain Builder whose labels are those of the
\* builder accessed, extended by X.
C19_AnyStringIsALabel ==
    [][Len(refs') = Len(refs) + 1 =>
         LET r == refs'[Len(refs')]
             x == r.path[Len(r.path)]
         IN /\ r.tag = "builder"
            /\ builders'[r.target].type = r.kind
            /\ IF Len(r.path) = 1
               THEN arrays'[builders'[r.target].labels] = <<x>>
               ELSE arrays'[builders'[r.target].labels]
                       = Append(BuilderLabels(r.target), x)]_vars

\* What does hold of C19: the same, for a name X that is not empty and not
\* a member of the builder function.
PlainNameIsALabel ==
    [][(/\ Len(refs') = Len(refs) + 1
        /\ LET r == refs'[Len(refs')] IN PlainNames(<<r.path[Len(r.path)]>>)) =>
         LET r == refs'[Len(refs')]
             x == r.path[Len(r.path)]
         IN /\ r.tag = "builder"
            /\ builders'[r.target].type = r.kind
            /\ IF Len(r.path) = 1
               THEN arrays'[builders'[r.target].labels] = <<x>>
               ELSE arrays'[builders'[r.target].labels]
                       = Append(BuilderLabels(r.target), x)]_vars

----------------------------------------------------------------------------
(* Claims about generateJSON *)

\* The leaves of a value, depth-first and left to right.
RECURSIVE LeavesOf(_)
RECURSIVE LeavesOfItems(_, _)
LeavesOf(value) ==
    IF value.t = "array" THEN LeavesOfItems(value.items, 1) ELSE <<value>>
LeavesOfItems(items, i) ==
    IF i > Len(items) THEN <<>>
    ELSE LeavesOf(items[i]) \o LeavesOfItems(items, i + 1)

IsBlockLeaf(value) == value.t = "block"
HasProducer(value) == value.body.fn # "none"
ProducerFails(value) == HasProducer(value) /\ value.body.fails

\* The Declarations of the input in encounter order, and those among them
\* whose body is a producer.
DeclsOf(value) == SelectSeq(LeavesOf(value), IsBlockLeaf)
ProducersOf(value) == SelectSeq(DeclsOf(value), HasProducer)

IsInvoke(ev) == ev.e = "invoke"
Invokes == SelectSeq(events, IsInvoke)
IsFailure(ev) == ev.e = "failed"
Failures == SelectSeq(events, IsFailure)

\* The object the document holds for Declaration d: the kind, then the
\* labels in order, then the mapping the body gives.
EntryOf(d) == BlockObject(d, d.body.val)

\* C4: bodies are resolved strictly one after another: no producer is
\* invoked twice, producers are invoked in encounter order, a producer is
\* invoked only when every producer invoked before it has completed, no two
\* producers are ever in flight, and when resolution is over (the write is
\* issued) every producer of the input has been invoked exactly once.
C4_SequentialResolution ==
    /\ Cardinality(inflight) <= 1
    /\ Len(Invokes) <= Len(ProducersOf(input))
    /\ \A m \in 1..Len(Invokes) :
          /\ Invokes[m].n <= Len(seen)
          /\ seen[Invokes[m].n] = ProducersOf(input)[m]
    /\ \A i, j \in 1..Len(events) :
          (i < j /\ IsInvoke(events[i]) /\ IsInvoke(events[j])) =>
              /\ events[i].n < events[j].n
              /\ \E k \in (i + 1)..(j - 1) : events[k] = Event("completed", events[i].n)
    /\ writes # <<>> => Len(Invokes) = Len(ProducersOf(input))

\* C4 witness: a call over, two producers invoked, the first one a promise.
C4_Witness ==
    /\ pc = "done"
    /\ Len(Invokes) >= 2
    /\ seen[Invokes[1].n].body.fn = "promise"

\* C5: the entries of the document are in the encounter order of their
\* Declarations: entry i of the array written is the object of the i-th
\* Declaration of the input, whenever the producers complete.
C5_EntriesInEncounterOrder ==
    /\ Len(objects) <= Len(DeclsOf(input))
    /\ \A i \in 1..Len(objects) : objects[i] = EntryOf(DeclsOf(input)[i])
    /\ writes # <<>> =>
          writes[1] = Stringify([i \in 1..Len(DeclsOf(input)) |-> EntryOf(DeclsOf(input)[i])])

\* C5 witness: a document of two entries written, the first from a promise,
\* the second from an object body.
C5_Witness ==
    /\ writes # <<>>
    /\ Len(objects) = 2
    /\ seen[1].body.fn = "promise"
    /\ seen[2].body.fn = "none"

\* C6: the write is issued at most once, and only after the body of every
\* Declaration of the input has resolved; when a producer fails nothing is
\* written.
C6_SingleWriteAfterResolution ==
    /\ Len(writes) <= 1
    /\ writes # <<>> =>
          /\ Len(objects) = Len(DeclsOf(input))
          /\ inflight = {}
          /\ Failures = <<>>
          /\ \A m \in 1..Len(Invokes) :
                \E k \in 1..Len(events) : events[k] = Event("completed", Invokes[m].n)
    /\ Failures # <<>> => writes = <<>>

\* C6 witness: a call that failed at its second Declaration, after the body
\* of the first resolved, with nothing written.
C6_Witness ==
    /\ pc = "failed"
    /\ Failures # <<>>
    /\ Len(objects) = 1
    /\ writes = <<>>

\* C7: resolution is fail-fast: once the producer of the Declaration at
\* position i fails, nothing more is invoked and no later Declaration is
\* reached, and the call fails with that failure.
C7_FailFast ==
    \A j \in 1..Len(events) :
        IsFailure(events[j]) =>
            /\ j = Len(events)
            /\ Len(seen) = events[j].n
            /\ pc \in {"await", "failed"}
            /\ pc = "failed" => error = seen[events[j].n].body.val

\* C7 witness: the call failed at a producer and a later Declaration of the
\* input has a producer, which was never invoked.
C7_Witness ==
    /\ pc = "failed"
    /\ Failures # <<>>
    /\ Len(ProducersOf(input)) > Len(Invokes)

C9_OtherLeavesIgnored ==
    /\ pc = "failed" => (Failures # <<>> \/ error = WriteErrorValue)
    /\ writes # <<>> => Len(objects) = Len(DeclsOf(input))

\* What does hold of C9 and C10: without a null or undefined leaf the other
\* leaves are ignored and nesting is transparent.
NoNullLeaf ==
    \A i \in 1..Len(LeavesOf(input)) : LeavesOf(input)[i].t \notin {"null", "undefined"}
OtherLeavesButNullIgnored == NoNullLeaf => C9_OtherLeavesIgnored

\* What generateJSON writes for the flat collection [D1, ..., Dn].
FlatWrites(ds) ==
    IF \E i \in 1..Len(ds) : ProducerFails(ds[i]) THEN <<>>
    ELSE <<Stringify([i \in 1..Len(ds) |-> EntryOf(ds[i])])>>

\* The call is over.
CallOver == pc \in {"done", "failed"}

\* FlatWrites is what the model writes for a flat collection of Declarations.
FlatWritesIsFlatRun ==
    (CallOver /\ \A i \in 1..Len(input.items) : IsBlockLeaf(input.items[i])) =>
        writes = FlatWrites(input.items)

\* C10 (as claimed): nesting is transparent: for a collection whose
\* Declarations in encounter order are D1..Dn, with other leaves in between,
\* generateJSON writes exactly what it writes for the flat [D1, ..., Dn].
C10_NestingTransparent ==
    CallOver => writes = FlatWrites(DeclsOf(input))

NestingWithoutNullTransparent ==
    (CallOver /\ NoNullLeaf) => writes = FlatWrites(DeclsOf(input))

----------------------------------------------------------------------------
(* Claims about createBlockObject *)

\* The value found in v by following keys, one key per level of nesting;
\* every level on the way is an object of exactly that one key.
RECURSIVE AtPath(_, _)
AtPath(v, keys) ==
    IF keys = <<>> THEN v
    ELSE IF v.t = "object" /\ Len(v.e) = 1 /\ v.e[1][1] = Head(keys)
    THEN AtPath(v.e[1][2], Tail(keys))
    ELSE JString("no such path")

\* C11: for a Declaration of kind K, labels [l1, ..., ln] and resolved body
\* M, createBlockObject returns {K: {l1: {... {ln: M}}}}: following K and
\* then the labels in order, one key per level, ends at M; with no label the
\* object is {K: M}.
C11_KindThenLabelsThenBody ==
    \A i \in 1..Len(objects) :
        /\ AtPath(objects[i], <<seen[i].type>> \o seen[i].labels)
              = ObjectValue(seen[i].body.val)
        /\ seen[i].labels = <<>> =>
              objects[i] = JObject(<<<<seen[i].type, ObjectValue(seen[i].body.val)>>>>)

\* C11 witness: a document holding the object of a Declaration of two labels
\* and the object of a Declaration of none.
C11_Witness ==
    /\ Len(objects) = 2
    /\ \E i, j \in 1..2 : Len(seen[i].labels) = 2 /\ seen[j].labels = <<>>

\* The Declaration d with the mapping its producer yields as a static body.
StaticOf(d) == BlockOf(d.type, d.labels, Body("none", d.body.val, FALSE))

\* C12: a deferred body is equivalent to its result: the object of a
\* Declaration whose producer yields M (by plain return or through a promise)
\* is the object of the same Declaration with M as its static body.
C12_DeferredBodyIsItsResult ==
    \A i \in 1..Len(objects) :
        HasProducer(seen[i]) =>
            objects[i] = BlockObject(StaticOf(seen[i]), StaticOf(seen[i]).body.val)

\* C12 witness: the objects of a plain-function body and of a promise body
\* are both in the document.
C12_Witness ==
    /\ pc = "done"
    /\ Len(objects) = 2
    /\ \E i, j \in 1..2 : seen[i].body.fn = "sync" /\ seen[j].body.fn = "promise"

\* C13: when the write fails after every body resolved, generateJSON fails
\* with the error of the write, not with the value of any body, and by then
\* every producer of the input has been invoked and has completed.
C13_WriteFailureIsTheWritesOwn ==
    (pc = "failed" /\ writes # <<>>) =>
        /\ error = WriteErrorValue
        /\ Failures = <<>>
        /\ inflight = {}
        /\ Len(Invokes) = Len(ProducersOf(input))
        /\ \A m \in 1..Len(Invokes) :
              /\ \E k \in 1..Len(events) : events[k] = Event("completed", Invokes[m].n)
              /\ error # seen[Invokes[m].n].body.val

\* C13 witness: the write of a document of two producers failed.
C13_Witness ==
    /\ pc = "failed"
    /\ writes # <<>>
    /\ Len(Invokes) = 2

----------------------------------------------------------------------------
(* Claims about reference expressions *)

\* The name of access i, and the conditions under which the claims speak:
\* the client started from a Block, the value held comes from one access on
\* the Block with a name that is not a member, the Block was converted.
NameAt(i) == Str(trail[i])
FromBlock == decl.t = "block"
AccessedBlock == FromBlock /\ Len(trail) = 1 /\ ~InBlock(NameAt(1))
ConvertedBlock == FromBlock /\ held.tag = "block" /\ out # NoOut

\* The prefix of the reference grammar, as the claim states it.
ClaimedPrefix(kind) ==
    IF kind = "resource" THEN <<>>
    ELSE IF kind = "variable" THEN <<"var">>
    ELSE IF kind = "locals" THEN <<"local">>
    ELSE <<kind>>

\* C14 (as claimed): for every Declaration whose kind is not provider, with
\* labels L and optional trailing name P, the resolver returns an
\* Interpolation whose expression is the '.'-join of prefix(kind), then L in
\* order, then P if a P was supplied.
C14_ExpressionIsJoinOfParts ==
    (FromBlock /\ decl.type # "provider") =>
        /\ AccessedBlock =>
              held = InterpolationValue(
                  Join(ClaimedPrefix(decl.type) \o decl.labels \o <<NameAt(1)>>, "."))
        /\ ConvertedBlock =>
              out.text = "${" \o Join(ClaimedPrefix(decl.type) \o decl.labels, ".") \o "}"

\* What does hold of C14: the same, for a trailing name that is not the
\* empty string.
ExpressionOfNamedReferenceIsJoin ==
    (FromBlock /\ decl.type # "provider") =>
        /\ (AccessedBlock /\ trail[1] # <<>>) =>
              held = InterpolationValue(
                  Join(ClaimedPrefix(decl.type) \o decl.labels \o <<NameAt(1)>>, "."))
        /\ ConvertedBlock =>
              out.text = "${" \o Join(ClaimedPrefix(decl.type) \o decl.labels, ".") \o "}"

\* The values the body of d gives for the key alias (none or one).
AliasValues(d) == {p[2] : p \in {q \in d.body.val : d.body.fn = "none" /\ q[1] = "alias"}}

\* The alias parts a provider expression may end with.
AliasParts(d) == {<<>>, <<"default">>} \cup {<<v>> : v \in AliasValues(d)}

ClaimedAlias(d, prop) ==
    IF AliasValues(d) # {} THEN <<CHOOSE v \in AliasValues(d) : TRUE>>
    ELSE IF prop = <<"alias">> THEN <<"default">>
    ELSE <<>>

\* C16 (as claimed): for a provider Declaration whose body is a mapping, the
\* resolver appends after the labels the value of alias when the body has
\* one, whatever the value and for every trailing name, supplied or not;
\* 'default' if and only if the body has no alias and the trailing name is
\* alias; otherwise nothing.
C16_ProviderAliasRule ==
    (FromBlock /\ decl.type = "provider" /\ decl.body.fn = "none") =>
        /\ AccessedBlock =>
              held.text = Join(decl.labels \o ClaimedAlias(decl, <<NameAt(1)>>), ".")
        /\ ConvertedBlock =>
              out.text = Join(decl.labels \o ClaimedAlias(decl, <<>>), ".")

\* What does hold of C16: the rule, for a body whose alias, if it has one,
\* is not the empty string.
AliasRuleForNonEmptyAlias ==
    (FromBlock /\ decl.type = "provider" /\ decl.body.fn = "none"
       /\ "" \notin AliasValues(decl)) =>
        /\ AccessedBlock =>
              held.text = Join(decl.labels \o ClaimedAlias(decl, <<NameAt(1)>>), ".")
        /\ ConvertedBlock =>
              out.text = Join(decl.labels \o ClaimedAlias(decl, <<>>), ".")

\* The name is a non-negative integer in decimal notation.
IsNonNegativeInteger(cs) == cs # <<>> /\ AllIn(cs, Digits)

\* The value held comes from an access on an Interpolation with a name that
\* is not a member of it.
AccessedInterpolation ==
    trail # <<>> /\ prev.tag = "interpolation" /\ ~InInterpolation(NameAt(Len(trail)))

\* C17 (as claimed): accessing K on an Interpolation with expression E
\* returns a new Interpolation whose expression is E[K] when K parses as a
\* non-negative integer and E.K for every other K, at every link of a chain.
C17_IndexOrName ==
    AccessedInterpolation =>
        LET k == trail[Len(trail)]
        IN held = InterpolationValue(
               IF IsNonNegativeInteger(k) THEN prev.text \o "[" \o Str(k) \o "]"
               ELSE prev.text \o "." \o Str(k))

\* What does hold of C17: the rule, for a K that is a non-negative integer
\* or is no numeric string at all.
IndexOrNameForPlainKeys ==
    (AccessedInterpolation
       /\ trail[Len(trail)] \in {<<"i", "d">>, <<"a", "l", "i", "a", "s">>,
                                 <<"0">>, <<"1", "0", "0">>}) =>
        LET k == trail[Len(trail)]
        IN held = InterpolationValue(
               IF IsNonNegativeInteger(k) THEN prev.text \o "[" \o Str(k) \o "]"
               ELSE prev.text \o "." \o Str(k))

\* No name of the trail is a member of the object it was accessed on.
NoMemberAccessed ==
    /\ trail # <<>>
    /\ ~InBlock(NameAt(1))
    /\ \A i \in 2..Len(trail) : ~InInterpolation(NameAt(i))

\* C18 (as claimed): accessing a name that is not a member on a Declaration
\* of any kind yields an Interpolation, and a further access on the result
\* yields an Interpolation again.
C18_AccessYieldsInterpolation ==
    (FromBlock /\ NoMemberAccessed) => held.tag = "interpolation"

\* C18 (amended): the same, for a Declaration of any kind but provider.
C18_AccessOffProviderYieldsInterpolation ==
    (FromBlock /\ decl.type # "provider" /\ NoMemberAccessed) =>
        held.tag = "interpolation"

\* C18 witness: two names accessed in a chain from a data Declaration.
C18_Witness ==
    /\ FromBlock /\ decl.type = "data"
    /\ NoMemberAccessed
    /\ Len(trail) = 2
    /\ held.tag = "interpolation"

\* C20: rendering an Interpolation with expression E gives '${' E '}', by
\* toString, by toJSON and by primitive coercion alike, and the JSON text
\* of an Interpolation in a body is that rendering as a JSON string.
C20_RenderingIsWrappedExpression ==
    held.tag = "interpolation" =>
        /\ out # NoOut => out.text = "${" \o held.text \o "}"
        /\ \A via \in Conversions :
              InterpolationConvert(via, held.text) = InterpolationToString(held.text)
        /\ Serialize(JString(InterpolationToJSON(held.text)), 0)
              = "\"${" \o held.text \o "}\""

\* C20 witness: an Interpolation reached by an access, converted by toJSON.
C20_Witness ==
    /\ held.tag = "interpolation"
    /\ trail # <<>>
    /\ out.via = "toJSON"
    /\ out.text = "${" \o held.text \o "}"

\* C21: a Declaration used as a value in a body is serialized (by toJSON)
\* as its default reference, the result of the resolver with no trailing
\* name: the bare dotted string for a provider, '${' dotted path '}' for
\* every other kind; provider aws with alias west gives 'aws.west', the
\* variable do_token gives '${var.do_token}'.
C21_EmbeddedDeclarationIsItsReference ==
    (ConvertedBlock /\ out.via = "toJSON") =>
        /\ GetExpression(decl, <<>>).tag = "string" => out.text = GetExpression(decl, <<>>).text
        /\ decl.type = "provider" =>
              \E part \in AliasParts(decl) \ {<<"default">>} :
                  out.text = Join(decl.labels \o part, ".")
        /\ decl.type # "provider" =>
              out.text = "${" \o Join(ClaimedPrefix(decl.type) \o decl.labels, ".") \o "}"
        /\ (decl.type = "provider" /\ decl.labels = <<"aws">> /\ AliasValues(decl) = {"west"}) =>
              out.text = "aws.west"
        /\ (decl.type = "variable" /\ decl.labels = <<"do_token">>) =>
              out.text = "${var.do_token}"
        /\ Serialize(JString(out.text), 0) = "\"" \o out.text \o "\""

\* C21 witness: the variable do_token serialized by toJSON.
C21_Witness ==
    /\ ConvertedBlock
    /\ decl.type = "variable" /\ decl.labels = <<"do_token">>
    /\ out = [via |-> "toJSON", text |-> "${var.do_token}"]

----------------------------------------------------------------------------
(* Claims about invoking the builders *)

\* C22: invoking the factory of kind K directly with body B yields a
\* Declaration of kind K, no labels and body B; invoking a factory or a
\* Chain Builder with no argument yields a Declaration whose body is {}.
C22_DirectAndEmptyInvocation ==
    \A j \in 1..Len(created) :
        /\ created[j].path = <<>> =>
              /\ created[j].type = created[j].kind
              /\ created[j].labels = <<>>
              /\ BlockLabels(j) = <<>>
              /\ created[j].arg # NoArg => created[j].body = created[j].arg
        /\ created[j].arg = NoArg =>
              /\ created[j].body = Body("none", {}, FALSE)
              /\ BlockBody(j) = Body("none", {}, FALSE)

\* C22 witness: a factory invoked directly with a body that is not empty,
\* after a value was taken from a factory by an access.
C22_Witness ==
    /\ Len(created) = 1
    /\ created[1].path = <<>>
    /\ created[1].arg = Body("none", {<<"instance_type", "t2.micro">>}, FALSE)
    /\ Len(refs) >= 1

----------------------------------------------------------------------------
(* Claims about builders among the leaves *)

\* C27 (as claimed): a Chain Builder or a factory that was never invoked is
\* not a Declaration for generateJSON: as a leaf of the input it is never
\* handed to createBlockObject, and the document written holds the entries
\* of the Declarations of the input and no entry for it.
C27_BuilderLeafAddsNoEntry ==
    /\ \A i \in 1..Len(seen) : IsBlockLeaf(seen[i])
    /\ Len(objects) <= Len(DeclsOf(input))
    /\ writes # <<>> =>
          writes[1] = Stringify([i \in 1..Len(DeclsOf(input)) |-> EntryOf(DeclsOf(input)[i])])

----------------------------------------------------------------------------
(* Claims about the terraformjs command *)

Has(what) == \E i \in 1..Len(log) : log[i].e = what
Count(what) == Cardinality({i \in 1..Len(log) : log[i].e = what})

\* entry is a regular file whose name ends with ext.
IsFileOf(entry, ext) == entry.file /\ EndsWith(entry.name, ext)

\* The name of the document of module name: .tf.js at its end gives way to
\* .tf.json.
DocumentOf(name) == SubSeq(name, 1, Len(name) - Len(ExtJs)) \o ExtJson

\* The run failed while it removed the previous files or generated.
FailedBeforeTerraform(i) ==
    /\ log[i].e = "failed"
    /\ log[i].phase = "pre"
    /\ log[i].at \in {"getFiles", "unlink", "import", "generateJSON"}

\* The run is over.
RunOver == rpc \in {"exited", "ended"}

\* C23: in a full run (the command neither skips the generation nor is
\* generate) the previous .tf.json files are removed, then every module is
\* imported and its document written, then Terraform is spawned, then, after
\* it closed, the .tf.json files are removed; Terraform is spawned at most
\* once and never before every module has its document.
C23_FullRunOrder ==
    (GenerateFlag(cmd) /\ ExecuteFlag(cmd)) =>
        /\ \A i, j \in 1..Len(log) :
              /\ (log[i].e = "removed" /\ log[i].phase = "pre"
                    /\ log[j].e \in {"imported", "written", "spawned"}) => i < j
              /\ (log[i].e \in {"imported", "written"} /\ log[j].e = "spawned") => i < j
              /\ (log[i].e = "imported" /\ log[j].e = "written"
                    /\ log[j].name = DocumentOf(log[i].name)) => i < j
              /\ (log[i].e = "spawned" /\ log[j].e = "closed") => i < j
              /\ (log[i].e = "closed" /\ log[j].e = "removed" /\ log[j].phase = "post") => i < j
              /\ (log[i].e = "spawned" /\ log[j].e = "removed" /\ i < j) => log[j].phase = "post"
        /\ Count("spawned") <= 1
        /\ Has("spawned") =>
              \A k \in 1..Len(disk0) :
                  /\ IsFileOf(disk0[k], ExtJson) =>
                        \E i \in 1..Len(log) :
                            /\ log[i].e = "removed" /\ log[i].phase = "pre"
                            /\ log[i].name = disk0[k].name
                  /\ IsFileOf(disk0[k], ExtJs) =>
                        /\ \E i \in 1..Len(log) :
                              log[i].e = "imported" /\ log[i].name = disk0[k].name
                        /\ \E i \in 1..Len(log) :
                              log[i].e = "written" /\ log[i].name = DocumentOf(disk0[k].name)
        /\ (rpc = "exited" /\ Has("removal-done") /\ log[Len(log)].phase = "post"
              /\ log[Len(log)].e = "removal-done") =>
              \A k \in 1..Len(disk) : ~IsFileOf(disk[k], ExtJson)

\* C23 witness: a full run over: a previous document removed, two modules
\* generated, Terraform run, the two documents removed.
C23_Witness ==
    /\ cmd = "apply"
    /\ rpc = "exited"
    /\ Count("written") = 2
    /\ Count("removed") = 3
    /\ Has("closed")

\* C24: terraformjs generate generates the documents and never spawns
\* Terraform; nothing is removed after the generation, so every document
\* written is in the directory from then on, and when the run ends every
\* module has its document there.
C24_GenerateOnly ==
    cmd = "generate" =>
        /\ ~Has("spawned")
        /\ closeCode = <<>>
        /\ \A i \in 1..Len(log) : log[i].phase = "pre"
        /\ \A i \in 1..Len(log) :
              log[i].e = "written" =>
                  \E k \in 1..Len(disk) : disk[k] = Entry(log[i].name, TRUE, "run")
        /\ rpc = "ended" =>
              \A k \in 1..Len(disk0) :
                  IsFileOf(disk0[k], ExtJs) =>
                      \E m \in 1..Len(disk) :
                          disk[m] = Entry(DocumentOf(disk0[k].name), TRUE, "run")

\* C24 witness: terraformjs generate ended with the documents of two modules.
C24_Witness ==
    /\ cmd = "generate"
    /\ rpc = "ended"
    /\ Count("written") = 2

\* No module of the directory at the start has name for its document.
NoModuleFor(name) ==
    \A j \in 1..Len(disk0) :
        IsFileOf(disk0[j], ExtJs) => DocumentOf(disk0[j].name) # name

\* C25 (as claimed): a run removes only .tf.json files that terraformjs
\* generated: a .tf.json file with no corresponding .tf.js module is still
\* in the directory after any run, the runs that skip the generation
\* included.
C25_OnlyGeneratedFilesRemoved ==
    RunOver =>
        \A k \in 1..Len(disk0) :
            (IsFileOf(disk0[k], ExtJson) /\ NoModuleFor(disk0[k].name)) =>
                \E m \in 1..Len(disk) : disk[m] = disk0[k]

\* What does hold of C25: nothing but regular files named *.tf.json is ever
\* removed.
OnlyJsonFilesRemoved ==
    \A k \in 1..Len(disk0) :
        ~IsFileOf(disk0[k], ExtJson) => \E m \in 1..Len(disk) : disk[m] = disk0[k]

\* names is made of the names of the regular files of entries that end with
\* ext, each once, in the order of entries.
IsSelection(names, entries, ext) ==
    /\ \A i \in 1..Len(names) :
          \E k \in 1..Len(entries) : entries[k].name = names[i] /\ IsFileOf(entries[k], ext)
    /\ \A k \in 1..Len(entries) :
          IsFileOf(entries[k], ext) => \E i \in 1..Len(names) : names[i] = entries[k].name
    /\ Len(names) = Cardinality({k \in 1..Len(entries) : IsFileOf(entries[k], ext)})
    /\ \A i, j \in 1..Len(names) :
          i < j => \E k, l \in 1..Len(entries) :
                      k < l /\ entries[k].name = names[i] /\ entries[l].name = names[j]

\* C26: getFiles(dir, ext) returns exactly the names of the entries that
\* are regular files and whose name ends with ext, in the order of the
\* listing; with ext omitted the names of all the regular files; never a
\* directory; a failure of the listing is propagated unchanged.
C26_GetFilesSelectsFilesInOrder ==
    /\ \A ext \in {ExtJs, ExtJson, DefaultExt, <<"s">>} :
          /\ GetFiles(Listed(disk), ext).ok
          /\ IsSelection(GetFiles(Listed(disk), ext).names, disk, ext)
          /\ \A i \in 1..Len(GetFiles(Listed(disk), ext).names) :
                ~HasDirectory(disk, GetFiles(Listed(disk), ext).names[i])
          /\ GetFiles(ListingFailed(ReaddirError), ext)
                = [ok |-> FALSE, names |-> <<>>, err |-> ReaddirError]
    /\ \A k \in 1..Len(disk) :
          disk[k].file =>
              \E i \in 1..Len(GetFiles(Listed(disk), DefaultExt).names) :
                  GetFiles(Listed(disk), DefaultExt).names[i] = disk[k].name
    /\ (rpc = "import" /\ idx = 1) => IsSelection(files, disk, ExtJs)
    /\ (rpc = "unlink" /\ idx = 1) => IsSelection(files, disk, ExtJson)
    /\ \A i \in 1..Len(log) :
          (log[i].e = "failed" /\ log[i].at = "getFiles") => log[i].err = ReaddirError

\* C26 witness: the modules listed in a directory that holds two modules,
\* the second listed first, and a directory named as a module.
C26_Witness ==
    /\ rpc = "import" /\ idx = 1
    /\ files = << <<"b">> \o ExtJs, <<"a">> \o ExtJs >>
    /\ HasDirectory(disk, <<"d">> \o ExtJs)

\* C28: if the removal of the previous files or the generation of a module
\* fails, the run exits at once with code 1 and Terraform is never spawned.
C28_FailureExitsWithoutTerraform ==
    \A i \in 1..Len(log) :
        FailedBeforeTerraform(i) =>
            /\ i = Len(log)
            /\ rpc = "exited"
            /\ exitCode = <<1>>
            /\ ~Has("spawned")

\* C28 witness: the generation of the second module failed.
C28_Witness ==
    /\ cmd = "apply"
    /\ Count("written") = 1
    /\ FailedBeforeTerraform(Len(log))
    /\ log[Len(log)].at = "generateJSON"

\* C29 (as claimed): if the generation of a module fails, no document
\* generated earlier in the same run remains in the directory when the
\* process exits.
C29_NothingLeftAfterFailedGeneration ==
    (rpc = "exited" /\ \E i \in 1..Len(log) :
                          FailedBeforeTerraform(i) /\ log[i].at \in {"import", "generateJSON"}) =>
        \A i \in 1..Len(log) :
            log[i].e = "written" =>
                ~\E k \in 1..Len(disk) : disk[k].name = log[i].name /\ disk[k].by = "run"

====
